---- MODULE Spec2Model ----
(***************************************************************************)
(* Anti-flooding client buffer of the agent (src/client-agent/buffer.c).   *)
(*                                                                         *)
(* One producer thread calls buffer_append, one consumer thread runs       *)
(* dispatch_buffer.  Both share the ring (buffer, i, j, message_count,     *)
(* current_capacity), the level machine (state, start) and the bit-field   *)
(* struct buff, under the mutex mutex_lock and the condition variable      *)
(* cond_no_empty.  Each thread's position is a program counter; a step of  *)
(* the model is a maximal run of statements that no other thread can       *)
(* observe (the mutex is held, or only locals are touched).                *)
(*                                                                         *)
(* Messages are numbered 1, 2, ... in the order buffer_append is called;   *)
(* NULL is 0.  Slot k of the C array is buffer[k + 1].                     *)
(***************************************************************************)
EXTENDS Integers, Sequences, FiniteSets, TLC

\* ----------------------------------------------------------------- bounds
\* Number of buffer_append calls explored.
MaxMsgs == 5
\* Last value of the clock behind time(NULL), in seconds since buffer_init.
MaxTime == 1

\* ------------------------------------------------------ program constants
\* Policy bounds of the growth (their header is not part of the sources; the
\* model gives them small values, MAX below twice the initial capacity so
\* that the growth is clamped).
MIN_BUFFER_CAPACITY == 2
MAX_BUFFER_CAPACITY == 5

\* agt->buflength: configured usable slots.  buffer_init takes every length
\* whose capacity, length + 1, is in 1..MAX_BUFFER_CAPACITY; 0 is the smallest.
Usables == {0, 2}
\* getDefine_Int("agent", "warn_level", 1, 100)
WarnLevels == {60}
\* getDefine_Int("agent", "normal_level", 0, warn_level - 1)
NormalLevels == {30}
\* getDefine_Int("agent", "tolerance", 0, 600)
Tolerances == {0, 1}

NULL == 0
NORMAL == "NORMAL"
WARNING == "WARNING"
FULL == "FULL"
FLOOD == "FLOOD"
States == {NORMAL, WARNING, FULL, FLOOD}

\* The bit-fields of struct buff.
Flags == {"warn", "full", "flood", "normal"}
NoFlags == [f \in Flags |-> 0]

VARIABLES
    buffer,            \* char **buffer: sequence of current_capacity slots
    i,                 \* head index
    j,                 \* tail index
    message_count,
    current_capacity,
    state,             \* NORMAL, WARNING, FULL, FLOOD
    buff,              \* struct buff: the four edge flags
    start,             \* time the state FULL was entered
    warn_level,
    normal_level,
    tolerance,
    now,               \* value time(NULL) returns
    mutex,             \* owner of mutex_lock: "free", "A" (append), "D" (dispatcher)
    pcA,               \* position of the producer inside buffer_append
    cur,               \* msg argument of the running buffer_append
    nextId,            \* number the next buffer_append call gives its message
    ret,               \* value the last buffer_append returned (0, -1; 1: none yet)
    msg_count_stat,    \* counter behind w_agentd_state_update(INCREMENT_MSG_COUNT)
    pcD,               \* position of dispatch_buffer
    msg_output,        \* dispatcher local: the popped pointer
    snap,              \* dispatcher register: storage unit of buff as last loaded
    accepted,          \* history: messages for which buffer_append returned 0
    sent,              \* history: payloads handed to send_msg
    iterSent,          \* history: what this dispatcher iteration handed to send_msg
    freed,             \* history: messages freed by the overwrite path of the push
    grow_rc,           \* producer local: rc of resize_internal_buffer (1: not called)
    entry,             \* history: the shared state as the running call locked it
    len_ret,           \* value the last w_agentd_get_buffer_lenght returned
    buflength          \* agt->buflength as buffer_init read it

vars == <<buffer, i, j, message_count, current_capacity, state, buff, start,
          warn_level, normal_level, tolerance, now, mutex, pcA, cur, nextId,
          ret, msg_count_stat, pcD, msg_output, snap, accepted, sent, iterSent,
          freed, grow_rc, entry, len_ret, buflength>>

ringVars == <<buffer, i, j, message_count, current_capacity>>
levelVars == <<state, buff, start>>
confVars == <<warn_level, normal_level, tolerance, buflength>>
prodVars == <<pcA, cur, nextId, ret, msg_count_stat, accepted, freed, grow_rc,
             entry>>
lifeVars == <<len_ret>>
dispVars == <<pcD, msg_output, snap, sent, iterSent>>

\* ------------------------------------------------------------- predicates
\* Unsigned arithmetic: for capacity = 0 the difference capacity - 1 wraps to
\* UINT_MAX, a value no message count of the model reaches.
full(count, capacity) == IF capacity = 0 THEN FALSE ELSE count = capacity - 1

empty(count) == count = 0

warn(count, capacity) ==
    IF capacity <= 1 THEN FALSE
    ELSE (count * 100) \div (capacity - 1) >= warn_level

nowarn(count, capacity) ==
    IF capacity <= 1 THEN TRUE
    ELSE (count * 100) \div (capacity - 1) < warn_level

normal(count, capacity) ==
    IF capacity <= 1 THEN TRUE
    ELSE (count * 100) \div (capacity - 1) <= normal_level

forward(idx, capacity) == (idx + 1) % capacity

Slot(k) == buffer[k + 1]

\* ------------------------------------------------- resize_internal_buffer
\* Mutant of resize_internal_buffer: the result of realloc is stored before it
\* is tested, so a failed growth loses the array and its capacity.
resize_internal_buffer_LosesOnFail(buf, capacity, new_capacity, alloc_ok) ==
    IF new_capacity = 0 \/ new_capacity > MAX_BUFFER_CAPACITY
    THEN [rc |-> -1, buffer |-> buf, capacity |-> capacity]
    ELSE IF ~alloc_ok
    THEN [rc |-> -1, buffer |-> <<>>, capacity |-> 0]
    ELSE [rc |-> 0,
          buffer |-> [k \in 1..new_capacity |->
                        IF k <= capacity THEN buf[k] ELSE NULL],
          capacity |-> new_capacity]

\* Mutant of resize_internal_buffer: the capacity is updated before realloc
\* is known to have succeeded.
resize_internal_buffer_GrowsOnFail(buf, capacity, new_capacity, alloc_ok) ==
    IF new_capacity = 0 \/ new_capacity > MAX_BUFFER_CAPACITY
    THEN [rc |-> -1, buffer |-> buf, capacity |-> capacity]
    ELSE [rc |-> IF alloc_ok THEN 0 ELSE -1,
          buffer |-> [k \in 1..new_capacity |->
                        IF k <= capacity THEN buf[k] ELSE NULL],
          capacity |-> new_capacity]

\* realloc keeps the old slots where they are and the new slots are set to
\* NULL; i, j and message_count are not touched.  alloc_ok is realloc's outcome.
resize_internal_buffer(buf, capacity, new_capacity, alloc_ok) ==
    IF new_capacity = 0 \/ new_capacity > MAX_BUFFER_CAPACITY
    THEN [rc |-> -1, buffer |-> buf, capacity |-> capacity]
    ELSE IF ~alloc_ok
    THEN [rc |-> -1, buffer |-> buf, capacity |-> capacity]
    ELSE [rc |-> 0,
          buffer |-> [k \in 1..new_capacity |->
                        IF k <= capacity THEN buf[k] ELSE NULL],
          capacity |-> new_capacity]

\* ----------------------------------------------------------- buffer_init
\* The shared state a buffer_append call finds when it has taken the mutex.
EntryOf ==
    [i |-> i, j |-> j, message_count |-> message_count,
     current_capacity |-> current_capacity, buffer |-> buffer,
     state |-> state, buff |-> buff, msg_count_stat |-> msg_count_stat]

\* Value of entry while no call holds the mutex.
NoEntry ==
    [i |-> 0, j |-> 0, message_count |-> 0, current_capacity |-> 0,
     buffer |-> <<>>, state |-> NORMAL, buff |-> NoFlags, msg_count_stat |-> 0]

Init ==
    /\ buflength \in Usables
    /\ current_capacity = buflength + 1
    /\ buffer = [k \in 1..(buflength + 1) |-> NULL]
    /\ i = 0
    /\ j = 0
    /\ message_count = 0
    /\ state = NORMAL
    /\ buff = NoFlags
    /\ start = 0
    /\ warn_level \in WarnLevels
    /\ normal_level \in {n \in NormalLevels : n <= warn_level - 1}
    /\ tolerance \in Tolerances
    /\ now = 0
    /\ mutex = "free"
    /\ pcA = "idle"
    /\ cur = NULL
    /\ nextId = 1
    /\ ret = 1
    /\ msg_count_stat = 0
    /\ pcD = "lock"
    /\ msg_output = NULL
    /\ snap = NoFlags
    /\ accepted = <<>>
    /\ sent = <<>>
    /\ iterSent = <<>>
    /\ freed = {}
    /\ grow_rc = 1
    /\ entry = NoEntry
    /\ len_ret = 0

\* --------------------------------------------------------- buffer_append
\* The collector calls buffer_append(msg).
A_Call ==
    /\ pcA = "idle"
    /\ nextId <= MaxMsgs
    /\ cur' = nextId
    /\ nextId' = nextId + 1
    /\ pcA' = "lock"
    /\ UNCHANGED <<ringVars, levelVars, confVars, lifeVars, now, mutex, ret,
                   msg_count_stat, accepted, freed, grow_rc, entry, dispVars>>

\* w_mutex_lock(&mutex_lock)
A_Lock ==
    /\ pcA = "lock"
    /\ mutex = "free"
    /\ mutex' = "A"
    /\ pcA' = "grow"
    /\ entry' = EntryOf
    /\ UNCHANGED <<ringVars, levelVars, confVars, lifeVars, now, cur, nextId,
                   ret, msg_count_stat, accepted, freed, grow_rc, dispVars>>

\* The capacity the growth asks for: twice the current one, clamped.
GrowTarget(capacity) ==
    LET d0 == capacity * 2
        d1 == IF d0 < MIN_BUFFER_CAPACITY THEN MIN_BUFFER_CAPACITY ELSE d0
    IN  IF d1 > MAX_BUFFER_CAPACITY THEN MAX_BUFFER_CAPACITY ELSE d1

\* Mutant of GrowTrigger: only the state WARNING asks for a growth.
GrowTrigger_WarningOnly == state = WARNING

\* Whether buffer_append enters the growth block.
GrowTrigger ==
    state = WARNING \/ (state = NORMAL /\ warn(message_count, current_capacity))

\* Dynamic resizing, before the level machine.
A_Grow ==
    /\ pcA = "grow"
    /\ IF GrowTrigger /\ GrowTarget(current_capacity) > current_capacity
       THEN \E alloc_ok \in BOOLEAN :
              LET r == resize_internal_buffer(buffer, current_capacity,
                           GrowTarget(current_capacity), alloc_ok)
              IN  /\ buffer' = r.buffer
                  /\ current_capacity' = r.capacity
                  /\ grow_rc' = r.rc
       ELSE UNCHANGED <<buffer, current_capacity, grow_rc>>
    /\ pcA' = "level"
    /\ UNCHANGED <<i, j, message_count, levelVars, confVars, lifeVars, now,
                   mutex, cur, nextId, ret, msg_count_stat, accepted, freed,
                   entry, dispVars>>

\* Mutant of EnterFull: the whole struct is rewritten on the way into FULL.
EnterFull_ResetsFlags(bf) == [NoFlags EXCEPT !.full = 1]

\* Mutant of EnterFull: the state changes and the flag is not raised.
EnterFull_Forgets(bf) == bf

\* buff.full = 1 on the way into FULL from NORMAL or WARNING.
EnterFull(bf) == [bf EXCEPT !.full = 1]

\* Mutant of ToleranceElapsed: the comparison is strict.
ToleranceElapsed_Strict(t, sr) == t - sr > tolerance

\* The escalation test of the state FULL: end - start >= tolerance.
ToleranceElapsed(t, sr) == t - sr >= tolerance

\* switch (state) of buffer_append; t is time(NULL).
AppendLevel(st, bf, sr, count, capacity, t) ==
    CASE st = NORMAL ->
           IF full(count, capacity)
           THEN [state |-> FULL, buff |-> EnterFull(bf), start |-> t]
           ELSE IF warn(count, capacity)
           THEN [state |-> WARNING, buff |-> [bf EXCEPT !.warn = 1], start |-> sr]
           ELSE [state |-> st, buff |-> bf, start |-> sr]
      [] st = WARNING ->
           IF full(count, capacity)
           THEN [state |-> FULL, buff |-> EnterFull(bf), start |-> t]
           ELSE IF normal(count, capacity)
           THEN [state |-> NORMAL,
                 buff |-> [bf EXCEPT !.warn = 0, !.normal = 1], start |-> sr]
           ELSE [state |-> st, buff |-> bf, start |-> sr]
      [] st = FULL ->
           IF ToleranceElapsed(t, sr)
           THEN [state |-> FLOOD, buff |-> [bf EXCEPT !.flood = 1], start |-> sr]
           ELSE IF normal(count, capacity)
           THEN [state |-> NORMAL,
                 buff |-> [bf EXCEPT !.full = 0, !.normal = 1], start |-> 0]
           ELSE IF nowarn(count, capacity) /\ ~full(count, capacity)
           THEN [state |-> WARNING,
                 buff |-> [bf EXCEPT !.full = 0, !.warn = 1], start |-> sr]
           ELSE [state |-> st, buff |-> bf, start |-> sr]
      [] st = FLOOD ->
           IF normal(count, capacity)
           THEN [state |-> NORMAL,
                 buff |-> [bf EXCEPT !.flood = 0, !.full = 0, !.normal = 1],
                 start |-> 0]
           ELSE IF nowarn(count, capacity) /\ ~full(count, capacity)
           THEN [state |-> WARNING,
                 buff |-> [bf EXCEPT !.flood = 0, !.full = 0, !.warn = 1],
                 start |-> sr]
           ELSE [state |-> st, buff |-> bf, start |-> sr]

\* Mutant of AppendLevelCount: the switch runs on the count after the push.
AppendLevelCount_AfterPush == message_count + 1

\* The count the switch of buffer_append reads: the message of this call is
\* not stored yet.
AppendLevelCount == message_count

\* Mutant of StatAfterLevel: only a message that is going to be stored counts.
StatAfterLevel_OnlyStored ==
    IF full(message_count, current_capacity)
    THEN msg_count_stat
    ELSE msg_count_stat + 1

\* w_agentd_state_update(INCREMENT_MSG_COUNT, NULL), placed after the switch
\* and before the full check.
StatAfterLevel == msg_count_stat + 1

\* Mutant of AppendLevelCapacity: the switch runs on the capacity the call
\* found, not on the grown one.
AppendLevelCapacity_BeforeGrowth == entry.current_capacity

\* The capacity the switch of buffer_append reads: the growth block is over.
AppendLevelCapacity == current_capacity

\* The level machine of buffer_append, then the telemetry update.
A_Level ==
    /\ pcA = "level"
    /\ LET r == AppendLevel(state, buff, start, AppendLevelCount,
                            AppendLevelCapacity, now)
       IN  /\ state' = r.state
           /\ buff' = r.buff
           /\ start' = r.start
    /\ msg_count_stat' = StatAfterLevel
    /\ pcA' = "push"
    /\ UNCHANGED <<ringVars, confVars, lifeVars, now, mutex, cur, nextId, ret,
                   accepted, freed, grow_rc, entry, dispVars>>

\* Mutant of DropDecision: the full test forgets the reserved slot.
DropDecision_OffByOne == message_count = current_capacity

\* Mutant of DropDecision: a full buffer overwrites instead of dropping.
DropDecision_Never == FALSE

\* Mutant of DropDecision: the last free slot is not used.
DropDecision_Early == message_count >= current_capacity - 2

\* Whether buffer_append drops the message instead of storing it.
DropDecision == full(message_count, current_capacity)

\* Mutant of PushSlot: the store goes to the slot after the head.
PushSlot_NextSlot(buf, head, m) ==
    [buf EXCEPT ![((head + 1) % Len(buf)) + 1] = m]

\* The slots after the push stored message m at the head (NULL: strdup failed).
PushSlot(buf, head, m) == [buf EXCEPT ![head + 1] = m]

\* The full check and the push, to the unlock and the return.  dup_ok is
\* strdup's outcome.  A waiting dispatcher is woken by w_cond_signal.
A_Push ==
    /\ pcA = "push"
    /\ IF DropDecision
       THEN /\ ret' = -1
            /\ UNCHANGED <<ringVars, accepted, freed, pcD>>
       ELSE \E dup_ok \in BOOLEAN :
              /\ freed' = IF Slot(i) # NULL THEN freed \cup {Slot(i)} ELSE freed
              /\ IF dup_ok
                 THEN /\ buffer' = PushSlot(buffer, i, cur)
                      /\ i' = forward(i, current_capacity)
                      /\ message_count' = message_count + 1
                      /\ pcD' = IF pcD = "waiting" THEN "woken" ELSE pcD
                      /\ ret' = 0
                      /\ accepted' = Append(accepted, cur)
                 ELSE /\ buffer' = PushSlot(buffer, i, NULL)
                      /\ ret' = -1
                      /\ UNCHANGED <<i, message_count, pcD, accepted>>
              /\ UNCHANGED <<j, current_capacity>>
    /\ mutex' = "free"
    /\ pcA' = "idle"
    /\ cur' = NULL
    /\ grow_rc' = 1
    /\ entry' = NoEntry
    /\ UNCHANGED <<levelVars, confVars, lifeVars, now, nextId, msg_count_stat,
                   msg_output, snap, sent, iterSent>>

\* ------------------------------------------------------- dispatch_buffer
\* Top of the loop: gettime(&ts0), w_mutex_lock(&mutex_lock).
D_Lock ==
    /\ pcD = "lock"
    /\ mutex = "free"
    /\ mutex' = "D"
    /\ pcD' = "chk"
    /\ iterSent' = <<>>
    /\ UNCHANGED <<ringVars, levelVars, confVars, lifeVars, now, prodVars, msg_output,
                   snap, sent>>

\* while (empty(message_count)) w_cond_wait(...): the wait releases the mutex.
D_Wait ==
    /\ pcD = "chk"
    /\ empty(message_count)
    /\ mutex' = "free"
    /\ pcD' = "waiting"
    /\ UNCHANGED <<ringVars, levelVars, confVars, lifeVars, now, prodVars, msg_output,
                   snap, sent, iterSent>>

\* A spurious wakeup of w_cond_wait (the signal of buffer_append is in A_Push).
D_Spurious ==
    /\ pcD = "waiting"
    /\ pcD' = "woken"
    /\ UNCHANGED <<ringVars, levelVars, confVars, lifeVars, now, mutex, prodVars,
                   msg_output, snap, sent, iterSent>>

\* w_cond_wait takes the mutex again before it returns to the while test.
D_Reacquire ==
    /\ pcD = "woken"
    /\ mutex = "free"
    /\ mutex' = "D"
    /\ pcD' = "chk"
    /\ UNCHANGED <<ringVars, levelVars, confVars, lifeVars, now, prodVars, msg_output,
                   snap, sent, iterSent>>

\* switch (state) of dispatch_buffer.
DispatchLevel(st, bf, sr, count, capacity) ==
    CASE st = NORMAL -> [state |-> st, buff |-> bf, start |-> sr]
      [] st = WARNING ->
           IF normal(count, capacity)
           THEN [state |-> NORMAL,
                 buff |-> [bf EXCEPT !.normal = 1, !.warn = 0], start |-> sr]
           ELSE [state |-> st, buff |-> bf, start |-> sr]
      [] st = FULL ->
           IF normal(count, capacity)
           THEN [state |-> NORMAL,
                 buff |-> [bf EXCEPT !.normal = 1, !.full = 0, !.warn = 0],
                 start |-> 0]
           ELSE IF nowarn(count, capacity)
           THEN [state |-> WARNING,
                 buff |-> [bf EXCEPT !.full = 0, !.warn = 1], start |-> sr]
           ELSE [state |-> st, buff |-> bf, start |-> sr]
      [] st = FLOOD ->
           IF normal(count, capacity)
           THEN [state |-> NORMAL,
                 buff |-> [bf EXCEPT !.normal = 1, !.flood = 0, !.full = 0,
                                     !.warn = 0],
                 start |-> 0]
           ELSE IF nowarn(count, capacity)
           THEN [state |-> WARNING,
                 buff |-> [bf EXCEPT !.flood = 0, !.full = 0, !.warn = 1],
                 start |-> sr]
           ELSE [state |-> st, buff |-> bf, start |-> sr]

\* Mutant of OwnerAfterPop: the unlock is missing (or placed after the send).
OwnerAfterPop_Held == "D"

\* The owner of the mutex when the dispatcher has popped: the pop is followed
\* by w_mutex_unlock, before the flags are reported and the payload is sent.
OwnerAfterPop == "free"

\* Mutant of PopLevelCount: the switch runs on the count after the pop.
PopLevelCount_AfterPop == message_count - 1

\* The count the switch of dispatch_buffer reads: the tail is not popped yet.
PopLevelCount == message_count

\* The level machine of the dispatcher, the pop at the tail and the unlock.
D_LevelPop ==
    /\ pcD = "chk"
    /\ ~empty(message_count)
    /\ LET r == DispatchLevel(state, buff, start, PopLevelCount,
                              current_capacity)
       IN  /\ state' = r.state
           /\ buff' = r.buff
           /\ start' = r.start
    /\ msg_output' = Slot(j)
    /\ buffer' = [buffer EXCEPT ![j + 1] = NULL]
    /\ j' = forward(j, current_capacity)
    /\ message_count' = message_count - 1
    /\ mutex' = OwnerAfterPop
    /\ pcD' = "test_warn"
    /\ UNCHANGED <<i, current_capacity, confVars, lifeVars, now, prodVars, snap, sent,
                   iterSent>>

\* Mutant of AfterFlag: the flood report is placed before the full report.
AfterFlag_FloodFirst(f) ==
    CASE f = "warn" -> "test_flood"
      [] f = "flood" -> "test_full"
      [] f = "full" -> "test_normal"
      [] f = "normal" -> "send"

\* Position after flag f has been handled.
AfterFlag(f) ==
    CASE f = "warn" -> "test_full"
      [] f = "full" -> "test_flood"
      [] f = "flood" -> "test_normal"
      [] f = "normal" -> "send"

\* if (buff.f): the storage unit of the bit-fields is loaded and bit f tested.
\* No mutex is held here.
D_Test(f) ==
    /\ pcD = "test_" \o f
    /\ snap' = buff
    /\ pcD' = IF buff[f] = 1 THEN "clear_" \o f ELSE AfterFlag(f)
    /\ UNCHANGED <<ringVars, levelVars, confVars, lifeVars, now, mutex, prodVars,
                   msg_output, sent, iterSent>>

\* The values the store of buff.f = 0 can leave in the storage unit shared by
\* the four bit-fields: bit f cleared in the unit as it is now, or in the unit
\* as it was loaded for the test (the write is a read-modify-write outside the
\* mutex, racing with the writes of buffer_append).
ClearOutcomes(f) == {[buff EXCEPT ![f] = 0], [snap EXCEPT ![f] = 0]}

\* buff.f = 0 and send_msg of the notification of f.
D_Clear(f) ==
    /\ pcD = "clear_" \o f
    /\ buff' \in ClearOutcomes(f)
    /\ iterSent' = Append(iterSent, f)
    /\ pcD' = AfterFlag(f)
    /\ UNCHANGED <<ringVars, state, start, confVars, lifeVars, now, mutex, prodVars,
                   msg_output, snap, sent>>

\* os_wait(), then send_msg(msg_output) and free unless the pointer is NULL.
\* The freed pointer is dead from here on: the model resets msg_output and
\* the register snap.
D_Send ==
    /\ pcD = "send"
    /\ IF msg_output # NULL
       THEN /\ sent' = Append(sent, msg_output)
            /\ iterSent' = Append(iterSent, "payload")
       ELSE UNCHANGED <<sent, iterSent>>
    /\ msg_output' = NULL
    /\ snap' = NoFlags
    /\ pcD' = "delay"
    /\ UNCHANGED <<ringVars, levelVars, confVars, lifeVars, now, mutex, prodVars>>

\* gettime(&ts1), delay(&ts1): the rate-limit sleep, then the next iteration.
D_Delay ==
    /\ pcD = "delay"
    /\ pcD' = "lock"
    /\ UNCHANGED <<ringVars, levelVars, confVars, lifeVars, now, mutex, prodVars,
                   msg_output, snap, sent, iterSent>>

\* ------------------------------------------------------------------ clock
\* time(NULL) advances.
Tick ==
    /\ now < MaxTime
    /\ now' = now + 1
    /\ UNCHANGED <<ringVars, levelVars, confVars, lifeVars, mutex, prodVars, dispVars>>

Next ==
    \/ A_Call
    \/ A_Lock
    \/ A_Grow
    \/ A_Level
    \/ A_Push
    \/ D_Lock
    \/ D_Wait
    \/ D_Spurious
    \/ D_Reacquire
    \/ D_LevelPop
    \/ \E f \in Flags : D_Test(f)
    \/ \E f \in Flags : D_Clear(f)
    \/ D_Send
    \/ D_Delay
    \/ Tick

Spec == Init /\ [][Next]_vars

\* -------------------------------------------------------------- lifecycle
\* Mutant of buffer_destroy: the capacity is not reset.
buffer_destroy_KeepsCapacity(capacity) ==
    [buffer |-> <<>>, current_capacity |-> capacity, i |-> 0, j |-> 0,
     message_count |-> 0, state |-> NORMAL, buff |-> NoFlags, start |-> 0]

\* What buffer_destroy leaves: every stored string and the array freed
\* (buffer = NULL is the empty sequence), the indices, the count, the level
\* state, the flags and the timestamps reset.
buffer_destroy(capacity) ==
    [buffer |-> <<>>, current_capacity |-> 0, i |-> 0, j |-> 0,
     message_count |-> 0, state |-> NORMAL, buff |-> NoFlags, start |-> 0]

\* Agent shutdown: the collector has stopped calling buffer_append, the
\* dispatcher thread has been ended at a point where it holds neither the
\* mutex nor a popped message, and buffer_destroy() runs.
L_Destroy ==
    /\ pcA = "idle"
    /\ mutex = "free"
    /\ pcD \in {"lock", "waiting", "woken", "delay"}
    /\ LET d == buffer_destroy(current_capacity)
       IN  /\ buffer' = d.buffer
           /\ current_capacity' = d.current_capacity
           /\ i' = d.i
           /\ j' = d.j
           /\ message_count' = d.message_count
           /\ state' = d.state
           /\ buff' = d.buff
           /\ start' = d.start
    /\ pcA' = "stopped"
    /\ pcD' = "exited"
    /\ UNCHANGED <<confVars, lifeVars, now, mutex, cur, nextId, ret,
                   msg_count_stat, accepted, freed, grow_rc, entry, msg_output,
                   snap, sent, iterSent>>

\* The array buffer_init leaves for the length u: a new array when there is
\* none or the capacity changes (the old strings and the old array are freed
\* first), the array as it is when the capacity stays.
buffer_init(buf, capacity, u, alloc_ok) ==
    IF buf = <<>> \/ u + 1 # capacity
    THEN resize_internal_buffer(<<>>, 0, u + 1, alloc_ok)
    ELSE [rc |-> 0, buffer |-> buf, capacity |-> capacity]

\* buffer_init() on a destroyed buffer, then the start of the dispatcher
\* thread; the configuration is read again.  A failed allocation ends the
\* process (merror_exit).  The histories start again with the new lifetime.
L_Init ==
    /\ pcD = "exited"
    /\ pcA = "stopped"
    /\ buffer = <<>>
    /\ \E u \in Usables, alloc_ok \in BOOLEAN :
          LET r == buffer_init(buffer, current_capacity, u, alloc_ok)
          IN  IF r.rc # 0
              THEN /\ pcA' = "exited"
                   /\ UNCHANGED <<ringVars, levelVars, confVars, mutex, pcD,
                                  accepted, sent, iterSent, freed>>
              ELSE /\ buflength' = u
                   /\ buffer' = r.buffer
                   /\ current_capacity' = r.capacity
                   /\ i' = 0
                   /\ j' = 0
                   /\ message_count' = 0
                   /\ state' = NORMAL
                   /\ buff' = NoFlags
                   /\ warn_level' \in WarnLevels
                   /\ normal_level' \in {n \in NormalLevels : n <= warn_level' - 1}
                   /\ tolerance' \in Tolerances
                   /\ mutex' = "free"
                   /\ pcA' = "idle"
                   /\ pcD' = "lock"
                   /\ accepted' = <<>>
                   /\ sent' = <<>>
                   /\ iterSent' = <<>>
                   /\ freed' = {}
                   /\ UNCHANGED start
    /\ UNCHANGED <<lifeVars, now, cur, nextId, ret, msg_count_stat, grow_rc,
                   entry, msg_output, snap>>

\* w_agentd_get_buffer_lenght(), called by the thread that reports the agent
\* state: -1 unless current_capacity > 0, else the count read under the mutex.
L_Len ==
    /\ current_capacity > 0 => mutex = "free"
    /\ len_ret' = IF current_capacity > 0 THEN message_count ELSE -1
    /\ UNCHANGED <<ringVars, levelVars, confVars, now, mutex, prodVars,
                   dispVars>>

NextLife ==
    \/ Next
    \/ L_Destroy
    \/ L_Init
    \/ L_Len

\* The buffer with its shutdown and restart.
SpecLife == Init /\ [][NextLife]_vars

\* Fair scheduling: a thread that can run a step eventually runs it, and a
\* thread waiting for the mutex gets it when it is released again and again.
\* Nothing is assumed of the dispatcher outside its critical section: send_msg
\* and the sleep may take for ever.
FairSpec ==
    /\ Spec
    /\ SF_vars(A_Lock)
    /\ WF_vars(A_Grow \/ A_Level \/ A_Push)
    /\ WF_vars(D_Wait \/ D_LevelPop)

\* Fair scheduling with a dispatcher that always makes progress: on top of
\* the fairness of the critical sections, the dispatcher gets the mutex when
\* it is released again and again, and send_msg, the flag reports and the
\* sleep always return.  buffer_destroy is not called.
LiveSpec ==
    /\ Spec
    /\ SF_vars(A_Lock)
    /\ WF_vars(A_Grow \/ A_Level \/ A_Push)
    /\ SF_vars(D_Lock \/ D_Reacquire)
    /\ WF_vars(D_Wait \/ D_LevelPop)
    /\ WF_vars((\E f \in Flags : D_Test(f)) \/ (\E f \in Flags : D_Clear(f))
                 \/ D_Send \/ D_Delay)

\* ---------------------------------------------------------------- helpers
IsPrefix(s, t) == Len(s) <= Len(t) /\ \A k \in 1..Len(s) : s[k] = t[k]

\* Messages held in ring slots.
Stored == {k \in 1..current_capacity : buffer[k] # NULL}

\* The dispatcher has popped and not yet sent.
PostPop == pcD \in {"test_warn", "test_full", "test_flood", "test_normal",
                    "clear_warn", "clear_full", "clear_flood", "clear_normal",
                    "send"}

FlagPcs == {"test_warn", "test_full", "test_flood", "test_normal",
            "clear_warn", "clear_full", "clear_flood", "clear_normal"}

\* Stored messages the dispatcher has popped: sent, or held in msg_output.
Popped == Len(sent) + (IF msg_output # NULL THEN 1 ELSE 0)

\* The step is the return of buffer_append.
AppendReturns == pcA = "push" /\ pcA' = "idle"

\* The step is the level machine of buffer_append or of the dispatcher.
LevelStep == (pcA = "level" /\ pcA' = "push") \/ (pcD = "chk" /\ pcD' = "test_warn")

\* The step is the dispatcher's clear-and-report of some flag.
ClearStep == pcD \in {"clear_warn", "clear_full", "clear_flood", "clear_normal"}
             /\ pcD' # pcD

Rank(x) ==
    CASE x = "warn" -> 1
      [] x = "full" -> 2
      [] x = "flood" -> 3
      [] x = "normal" -> 4
      [] x = "payload" -> 5

\* ------------------------------------------------------------------ claims

\* C1: the payloads handed to send_msg are, at every point in time, a prefix
\* of the messages for which buffer_append returned 0, in the same order.
C1_FifoPrefix == IsPrefix(sent, accepted)

\* C2: in every reachable state 0 <= message_count <= current_capacity - 1.
C2_CountInRange == message_count >= 0 /\ message_count <= current_capacity - 1

\* C2 witness: a full buffer at the grown capacity has turned an append away.
C2_Witness ==
    /\ message_count = current_capacity - 1
    /\ current_capacity = MAX_BUFFER_CAPACITY
    /\ pcA = "idle"
    /\ ret = -1

\* C3: outside a critical section (j + message_count) % current_capacity = i.
C3_HeadTailCount ==
    mutex = "free" => (j + message_count) % current_capacity = i

\* C4: outside a critical section the accepted messages are exactly the popped
\* ones plus the ones held in ring slots; no accepted message is freed by the
\* overwrite path of the push, and the dispatcher never pops a NULL slot.
C4_NoLossNoDup ==
    /\ mutex = "free" => Len(accepted) = Popped + Cardinality(Stored)
    /\ freed = {}
    /\ PostPop => msg_output # NULL

\* C5: when the buffer is full at the push decision, buffer_append returns -1
\* and head, tail, count, capacity and every slot stay as they were.
C5_DropLeavesRing ==
    [][(pcA = "push" /\ full(message_count, current_capacity))
         => /\ UNCHANGED ringVars
            /\ AppendReturns => (ret' = -1 /\ accepted' = accepted)]_vars

\* C5 witness: buffer_append has returned -1 on a buffer that is full.
C5_Witness ==
    /\ pcA = "idle"
    /\ ret = -1
    /\ full(message_count, current_capacity)
    /\ nextId > current_capacity

\* C6: under fair scheduling every buffer_append call returns, whatever the
\* dispatcher does outside its critical section.
C6_AppendReturns == (pcA = "lock") ~> (pcA = "idle")

\* C6 witness: buffer_append runs its critical section while the dispatcher
\* is in send_msg with a popped payload.
C6_Witness == pcA = "push" /\ mutex = "A" /\ pcD = "send" /\ msg_output # NULL

\* C7: what one dispatcher iteration hands to send_msg is in the order warn,
\* full, flood, normal, payload, each at most once, the payload last.
C7_NotifyOrder ==
    \A a, b \in 1..Len(iterSent) : a < b => Rank(iterSent[a]) < Rank(iterSent[b])

\* C7 witness: an iteration has sent the full and the flood notification and
\* then its payload.
C7_Witness ==
    /\ Len(iterSent) >= 3
    /\ iterSent[Len(iterSent)] = "payload"
    /\ \E a, b \in 1..Len(iterSent) : iterSent[a] = "full" /\ iterSent[b] = "flood"

\* C8 as stated: a pending edge flag is cleared only by the step that sends
\* its notification.
C8_StickyUntilNotified ==
    [][\A f \in Flags :
         (buff[f] = 1 /\ buff'[f] = 0) => iterSent' = Append(iterSent, f)]_vars

\* C8 amended: a pending edge flag is cleared only by the dispatcher's
\* clear-and-report step or by a downward transition of the level machine
\* (warn on a transition to NORMAL, full on a transition from FULL or FLOOD
\* to NORMAL or WARNING, flood on a transition from FLOOD to NORMAL or
\* WARNING); no transition clears normal and no upward transition clears any.
C8_ClearedOnlyDownward ==
    [][\A f \in Flags :
         (buff[f] = 1 /\ buff'[f] = 0) =>
            \/ ClearStep
            \/ /\ LevelStep
               /\ CASE f = "warn" -> state # NORMAL /\ state' = NORMAL
                    [] f = "full" -> state \in {FULL, FLOOD}
                                     /\ state' \in {NORMAL, WARNING}
                    [] f = "flood" -> state = FLOOD
                                      /\ state' \in {NORMAL, WARNING}
                    [] f = "normal" -> FALSE]_vars

\* C8 witness: in the first iteration of the dispatcher, before any
\* notification has been sent, the state is back to NORMAL with only the
\* normal flag pending: the flag raised on the way up (warn, full or flood)
\* has been cleared by the level machine.
C8_Witness ==
    /\ pcD = "test_warn"
    /\ msg_output = 1
    /\ sent = <<>>
    /\ state = NORMAL
    /\ buff = [NoFlags EXCEPT !.normal = 1]

\* C9: the dispatcher tests and clears the edge flags only while it holds the
\* mutex, and its clearing of one flag takes no other flag with it.
C9_FlagsUnderMutex ==
    [][/\ pcD \in FlagPcs => mutex = "D"
       /\ \A f \in Flags :
            (pcD = "clear_" \o f /\ pcD' # pcD) =>
               \A g \in Flags \ {f} : buff'[g] = buff[g]]_vars

\* C10: current_capacity never decreases.
C10_CapacityMonotone == [][current_capacity' >= current_capacity]_vars

\* C10 witness: the capacity has grown and the grown ring is in use.
C10_Witness ==
    /\ current_capacity = MAX_BUFFER_CAPACITY
    /\ message_count > 0
    /\ i > 2

\* C11: after a successful buffer_init the capacity is within the policy
\* bounds, MIN_BUFFER_CAPACITY <= current_capacity <= MAX_BUFFER_CAPACITY,
\* for every configured length buffer_init accepts.
C11_CapacityInPolicy ==
    /\ MIN_BUFFER_CAPACITY <= current_capacity
    /\ current_capacity <= MAX_BUFFER_CAPACITY

\* C12: from buffer_destroy to the next buffer_init the buffer has no array
\* and no capacity and w_agentd_get_buffer_lenght returns -1; the
\* buffer_init that follows leaves count 0, head = tail = 0, capacity
\* buflength + 1, every slot NULL, state NORMAL and the four flags clear; and
\* the first message the dispatcher pops after it is the first message
\* buffer_append accepted after it.
C12_Lifecycle ==
    [][/\ pcD' = "exited" => (current_capacity' = 0 /\ buffer' = <<>>)
       /\ (pcD = "exited" /\ len_ret' # len_ret) => len_ret' = -1
       /\ (pcD = "exited" /\ pcD' = "lock") =>
              /\ message_count' = 0
              /\ i' = 0
              /\ j' = 0
              /\ current_capacity' = buflength' + 1
              /\ buffer' = [k \in 1..(buflength' + 1) |-> NULL]
              /\ state' = NORMAL
              /\ buff' = NoFlags
       /\ (pcD = "chk" /\ pcD' = "test_warn" /\ sent = <<>>) =>
              (accepted # <<>> /\ msg_output' = accepted[1])]_vars

\* C12 witness: w_agentd_get_buffer_lenght has returned -1 on the destroyed
\* buffer, the buffer has been initialised again, and the first message
\* accepted since then (after two earlier calls at least) has been sent.
C12_Witness ==
    /\ len_ret = -1
    /\ current_capacity = buflength + 1
    /\ accepted # <<>>
    /\ sent = <<accepted[1]>>
    /\ accepted[1] > 2

\* C13 as stated: the telemetry counter counts the accepted appends only
\* (compared when no call is running).
C13_CountsAccepted == pcA = "idle" => msg_count_stat = Len(accepted)

\* C13 amended: the telemetry counter is incremented exactly once by every
\* buffer_append call, stored, dropped or failed alike: it equals the number
\* of calls that have passed the level machine.
C13_CountsEveryCall ==
    msg_count_stat =
        (nextId - 1) - (IF pcA \in {"lock", "grow", "level"} THEN 1 ELSE 0)

\* C13 witness: a call has been dropped on a full buffer and has been counted.
C13_Witness ==
    /\ pcA = "idle"
    /\ ret = -1
    /\ full(message_count, current_capacity)
    /\ freed = {}
    /\ msg_count_stat = Len(accepted) + 1

\* The step is the return of a buffer_append whose strdup failed.
CopyFails == AppendReturns /\ ~DropDecision /\ ret' = -1

\* C14 as stated: when strdup fails the call returns -1 and head, tail,
\* count, capacity, slots, level state, edge flags and telemetry counter are
\* what they were before the call.
C14_FailedCopyNoChange == [][CopyFails => EntryOf' = entry]_vars

\* C14 amended: when strdup fails the call returns -1 with head, tail and
\* count as before the call and no message stored (the slot at head is
\* NULL); the failing push changes no level state, but the telemetry counter
\* has been incremented and capacity, level state and flags are what the
\* growth and the level machine of that call made of them.
C14_FailedCopyKeepsRing ==
    [][CopyFails =>
         /\ i' = entry.i
         /\ j' = entry.j
         /\ message_count' = entry.message_count
         /\ accepted' = accepted
         /\ buffer' = [buffer EXCEPT ![i + 1] = NULL]
         /\ current_capacity' >= entry.current_capacity
         /\ msg_count_stat' = entry.msg_count_stat + 1
         /\ UNCHANGED levelVars]_vars

\* C14 witness: the first call of all has returned -1 on an empty buffer of
\* capacity 3 (it cannot have been dropped), counted and not stored.
C14_Witness ==
    /\ pcA = "idle"
    /\ ret = -1
    /\ nextId = 2
    /\ current_capacity = 3
    /\ message_count = 0
    /\ msg_count_stat = 1
    /\ accepted = <<>>

\* The ring as a buffer_append call found it.
RingAsEntered ==
    /\ buffer = entry.buffer
    /\ i = entry.i
    /\ j = entry.j
    /\ message_count = entry.message_count
    /\ current_capacity = entry.current_capacity

\* C15: a growth whose realloc fails leaves capacity, head, tail, count and
\* every slot as they were, and the call goes on at the old capacity: it runs
\* the level machine, then drops the message if the buffer is full and
\* stores it otherwise (unless the copy fails).
C15_FailedGrowthContinues ==
    [][/\ (pcA = "grow" /\ pcA' = "level" /\ grow_rc' = -1) =>
              UNCHANGED ringVars
       /\ (pcA = "level" /\ pcA' = "push" /\ grow_rc = -1) =>
              /\ RingAsEntered
              /\ UNCHANGED ringVars
              /\ msg_count_stat' = msg_count_stat + 1
       /\ (AppendReturns /\ grow_rc = -1) =>
              /\ RingAsEntered
              /\ IF message_count = current_capacity - 1
                 THEN ret' = -1 /\ UNCHANGED ringVars
                 ELSE \/ /\ ret' = 0
                         /\ buffer'[i + 1] = cur
                         /\ message_count' = message_count + 1
                         /\ accepted' = Append(accepted, cur)
                      \/ CopyFails]_vars

\* C15 witness: the growth of this call has failed, the level machine has
\* run at the old capacity and the buffer is not full: the message is about
\* to be stored.
C15_Witness ==
    /\ pcA = "push"
    /\ grow_rc = -1
    /\ current_capacity = 3
    /\ state = WARNING
    /\ message_count = 1

\* C16: with tolerance = 0, a buffer_append that finds the state FULL and the
\* buffer still full moves the state to FLOOD and sets the flood flag in its
\* level machine, and is dropped.
C16_ZeroToleranceFloods ==
    [][/\ (pcA = "level" /\ pcA' = "push" /\ tolerance = 0 /\ state = FULL
           /\ full(message_count, current_capacity)) =>
              (state' = FLOOD /\ buff'.flood = 1)
       /\ (AppendReturns /\ tolerance = 0 /\ entry.state = FULL
           /\ full(entry.message_count, entry.current_capacity)) =>
              (state = FLOOD /\ ret' = -1 /\ UNCHANGED ringVars)]_vars

\* C16 witness: with tolerance 0 and the clock still at 0, a dropped call has
\* left the state FLOOD with the flood flag pending on a full buffer.
C16_Witness ==
    /\ tolerance = 0
    /\ now = 0
    /\ pcA = "idle"
    /\ ret = -1
    /\ state = FLOOD
    /\ buff.flood = 1
    /\ current_capacity > 1
    /\ full(message_count, current_capacity)

\* C17: the state moves from FULL to FLOOD only in an evaluation that finds
\* the buffer still full and the tolerance elapsed; a buffer_append that
\* finds the state FULL and the buffer no longer full does not move to FLOOD.
C17_FloodOnlyWhileFull ==
    [][(state = FULL /\ state' = FLOOD) =>
          /\ full(message_count, current_capacity)
          /\ now - start >= tolerance]_vars

\* The step is the level machine of buffer_append.
AppendLevelStep == pcA = "level" /\ pcA' = "push"

\* C18: whenever a level machine (of buffer_append or of the dispatcher) runs
\* in the state FLOOD, or in FULL without the escalation to FLOOD firing, on
\* a buffer that is not full and whose fill is above normal_level, the state
\* becomes WARNING and the warn flag is set, also when the fill is at or
\* above warn_level.
C18_BackToWarning ==
    [][(/\ LevelStep
        /\ \/ state = FLOOD
           \/ state = FULL /\ ~(AppendLevelStep /\ ToleranceElapsed(now, start))
        /\ ~full(message_count, current_capacity)
        /\ ~normal(message_count, current_capacity))
         => (state' = WARNING /\ buff'.warn = 1)]_vars

\* C19 as stated: the level machine runs after the push: a buffer_append that
\* returns 0 and leaves the buffer full leaves the state FULL or FLOOD, and a
\* call dropped on a full buffer found the state FULL or FLOOD already.
C19_LevelAfterPush ==
    [][AppendReturns =>
         /\ (ret' = 0 /\ full(message_count', current_capacity')) =>
                state' \in {FULL, FLOOD}
         /\ (ret' = -1 /\ DropDecision) => entry.state \in {FULL, FLOOD}]_vars

\* C19 amended: the level machine of buffer_append runs before the push, on
\* the count without the message of the call, and the push changes no level
\* state: from NORMAL or WARNING the state moves to FULL (full flag set,
\* start recorded) exactly when the buffer is already full, and the call that
\* makes this move is dropped.
C19_LevelBeforePush ==
    [][/\ AppendReturns => UNCHANGED levelVars
       /\ (AppendLevelStep /\ state \in {NORMAL, WARNING}) =>
              IF message_count = current_capacity - 1
              THEN state' = FULL /\ buff'.full = 1 /\ start' = now
              ELSE state' \in {NORMAL, WARNING}
       /\ (AppendReturns /\ entry.state \in {NORMAL, WARNING} /\ state = FULL) =>
              (ret' = -1 /\ UNCHANGED ringVars)]_vars

\* C19 witness: buffer_append has returned 0 and left the buffer full, and
\* the state is NORMAL with no flag pending.
C19_Witness ==
    /\ pcA = "idle"
    /\ ret = 0
    /\ current_capacity > 1
    /\ full(message_count, current_capacity)
    /\ state = NORMAL
    /\ buff = NoFlags

\* The step is the level machine and the pop of the dispatcher.
PopStep == pcD = "chk" /\ pcD' = "test_warn"

\* C20 as stated: the level machine runs after the pop: a pop that leaves the
\* fill at or below normal_level while the state was WARNING, FULL or FLOOD
\* ends its critical section in NORMAL with the normal flag set.
C20_LevelAfterPop ==
    [][(/\ PopStep
        /\ state \in {WARNING, FULL, FLOOD}
        /\ normal(message_count', current_capacity'))
         => (state' = NORMAL /\ buff'.normal = 1)]_vars

\* C20 amended: the level machine of the dispatcher runs before the pop, on
\* the count that still includes the message about to be popped: from
\* WARNING, FULL or FLOOD the critical section ends in NORMAL, normal flag
\* set, exactly when the fill before the pop is at or below normal_level.
C20_LevelBeforePop ==
    [][(PopStep /\ state \in {WARNING, FULL, FLOOD}) =>
         IF (message_count * 100) \div (current_capacity - 1) <= normal_level
         THEN state' = NORMAL /\ buff'.normal = 1
         ELSE state' # NORMAL]_vars

\* C20 witness: the dispatcher has popped the last message, the fill is 0,
\* and the state is still WARNING with no normal flag.
C20_Witness ==
    /\ pcD = "test_warn"
    /\ msg_output # NULL
    /\ message_count = 0
    /\ state = WARNING
    /\ buff.normal = 0

\* The edge flag of a level state.
FlagOf(st) ==
    CASE st = WARNING -> "warn"
      [] st = FULL -> "full"
      [] st = FLOOD -> "flood"
      [] st = NORMAL -> "normal"

\* C21: every transition of a level machine, of buffer_append or of the
\* dispatcher, leaves the flag of the state it enters set, and a transition
\* into FULL records the time in start.
C21_EntryRaisesFlag ==
    [][(LevelStep /\ state' # state) =>
          /\ buff'[FlagOf(state')] = 1
          /\ state' = FULL => start' = now]_vars

\* C21 witness: the state FULL was entered at time 1 and FLOOD after it: the
\* full and the flood flag are pending and start holds the time of entry.
C21_Witness ==
    /\ state = FLOOD
    /\ buff.full = 1
    /\ buff.flood = 1
    /\ start = 1
    /\ pcA = "push"

\* min(MAX, max(MIN, 2 * capacity)).
PolicyTarget(capacity) ==
    LET lo == IF 2 * capacity > MIN_BUFFER_CAPACITY
              THEN 2 * capacity ELSE MIN_BUFFER_CAPACITY
    IN  IF lo < MAX_BUFFER_CAPACITY THEN lo ELSE MAX_BUFFER_CAPACITY

\* The step is the growth block of buffer_append.
GrowStep == pcA = "grow" /\ pcA' = "level"

\* C22: buffer_append attempts a growth exactly when the state is WARNING, or
\* NORMAL with the fill at or above warn_level, and the target
\* min(MAX, max(MIN, 2 * capacity)) is above the capacity; a successful
\* growth makes the capacity that target; at MAX_BUFFER_CAPACITY no growth is
\* attempted and a full buffer drops the message.
C22_GrowthPolicy ==
    [][/\ GrowStep =>
              /\ grow_rc' # 1 <=>
                    /\ \/ state = WARNING
                       \/ /\ state = NORMAL
                          /\ current_capacity > 1
                          /\ (message_count * 100) \div (current_capacity - 1)
                                >= warn_level
                    /\ PolicyTarget(current_capacity) > current_capacity
              /\ grow_rc' = 0 => current_capacity' = PolicyTarget(current_capacity)
              /\ grow_rc' # 0 => current_capacity' = current_capacity
       /\ (AppendReturns /\ entry.current_capacity = MAX_BUFFER_CAPACITY) =>
              /\ grow_rc = 1
              /\ message_count = MAX_BUFFER_CAPACITY - 1 =>
                    (ret' = -1 /\ UNCHANGED ringVars)]_vars

\* C22 witness: a call that found a full buffer at MAX_BUFFER_CAPACITY in the
\* state WARNING has attempted no growth and is about to be dropped.
C22_Witness ==
    /\ pcA = "push"
    /\ entry.state = WARNING
    /\ entry.current_capacity = MAX_BUFFER_CAPACITY
    /\ message_count = MAX_BUFFER_CAPACITY - 1
    /\ grow_rc = 1

\* C23: a buffer_append whose growth succeeded runs its level machine and its
\* full check on the new capacity: it does not enter FULL, it is not dropped
\* for fullness, and its message is stored unless the copy fails.
C23_GrowthRelieves ==
    [][/\ (AppendLevelStep /\ grow_rc = 0) =>
              /\ current_capacity > entry.current_capacity
              /\ state' \notin {FULL, FLOOD}
       /\ (AppendReturns /\ grow_rc = 0) =>
              /\ message_count < current_capacity - 1
              /\ \/ /\ ret' = 0
                    /\ buffer'[i + 1] = cur
                    /\ message_count' = message_count + 1
                    /\ accepted' = Append(accepted, cur)
                 \/ /\ ret' = -1
                    /\ buffer'[i + 1] = NULL
                    /\ message_count' = message_count]_vars

\* C23 witness: the call found the buffer full at capacity 3, grew it, and
\* has returned 0 with its message stored and the state not FULL.
C23_Witness ==
    /\ pcA = "idle"
    /\ ret = 0
    /\ current_capacity = MAX_BUFFER_CAPACITY
    /\ message_count = 3
    /\ accepted = <<1, 2, 3>>
    /\ sent = <<>>
    /\ msg_output = NULL
    /\ state = NORMAL

\* C24: only the level machine of buffer_append moves the state to FLOOD or
\* sets the flood flag: no step of the dispatcher and no passage of time
\* does either.
C24_FloodOnlyInAppend ==
    [][(\/ state # FLOOD /\ state' = FLOOD
        \/ buff.flood = 0 /\ buff'.flood = 1) => AppendLevelStep]_vars

\* Slot k lies in the live window [j, j + message_count), modulo the capacity.
InWindow(k) == (k - j) % current_capacity < message_count

\* C25: outside a critical section the slots of the live window hold a
\* message each and every other slot is NULL, and the push of buffer_append
\* never finds the slot at the head occupied.
C25_WindowOnly ==
    /\ mutex = "free" =>
          \A k \in 0..(current_capacity - 1) : (Slot(k) # NULL) <=> InWindow(k)
    /\ (pcA = "push" /\ ~DropDecision) => Slot(i) = NULL

\* Message m is in the sequence h.
InSeq(m, h) == \E k \in 1..Len(h) : h[k] = m

\* C26: with a dispatcher that always makes progress, every message for
\* which buffer_append returned 0 is eventually handed to send_msg, and the
\* dispatcher is never left waiting on the condition variable while the
\* count is above 0.
C26_AcceptedIsSent ==
    /\ \A m \in 1..MaxMsgs : InSeq(m, accepted) ~> InSeq(m, sent)
    /\ [](pcD = "waiting" => message_count = 0)

\* C27: a buffer_append that drops its message because the buffer is full,
\* at a capacity above 1, returns with the state FULL or FLOOD.
C27_DropOnlyInFull ==
    [][(AppendReturns /\ DropDecision /\ current_capacity > 1) =>
          /\ ret' = -1
          /\ state' \in {FULL, FLOOD}]_vars

\* C27 witness: a call that found the state WARNING and the buffer full at
\* capacity 5 has been dropped and has left the state FULL.
C27_Witness ==
    /\ pcA = "idle"
    /\ ret = -1
    /\ current_capacity = 5
    /\ message_count = 4
    /\ state = FULL
    /\ buff.full = 1
    /\ buff.warn = 1
    /\ nextId = 6

====
